---- MODULE Spec2Model ----
(***************************************************************************)
(* A model of AST_Code/extract_flow.py: the dependency graph built from    *)
(* per-file metadata (build_dependency_graph), the closure around a target *)
(* class (collect_connected_classes), the ordering of that closure         *)
(* (topologically_order_subgraph) and the run that chains them (run_flow). *)
(*                                                                         *)
(* A networkx DiGraph is modelled as [nodes, edges]: a set of node names   *)
(* and a set of <<source, target>> pairs (add_edge on an existing pair     *)
(* changes nothing).  The order in which the copied subgraph enumerates    *)
(* its nodes and each node's successors depends on insertion order and on  *)
(* set iteration order; it is modelled as an arbitrary choice (nord, sord).*)
(***************************************************************************)
EXTENDS Integers, Sequences, FiniteSets, TLC

VARIABLES
    pc,             \* position of the run
    files,          \* the project on disk: source files in discovery order
    parser,         \* run_flow: parser ("None": the regex fallback is used)
    all_meta,       \* run_flow: all_meta
    G,              \* the dependency graph
    class_to_file,  \* class registry: simple name -> [file, package, meta]
    simple_map,     \* build_dependency_graph: simple_map
    target_class,   \* the requested target
    connected,      \* result of collect_connected_classes
    order,          \* result of topologically_order_subgraph
    snippets,       \* result of extract_code_snippets
    diag,           \* diagnostics printed so far
    outputs         \* artifacts written by write_outputs

vars == <<pc, files, parser, all_meta, G, class_to_file, simple_map,
          target_class, connected, order, snippets, diag, outputs>>

-----------------------------------------------------------------------------
(* Bounds and universes *)

\* class names of graphs checked on their own
GraphNames == {"A", "B", "C", "D"}

\* a target that is no class of any project
Missing == "Nope"

\* most edges of a graph drawn in InitGraph
MaxEdges == 3

-----------------------------------------------------------------------------
(* Sequences and sets *)

Range(s) == {s[i] : i \in DOMAIN s}

RECURSIVE Perms(_)
\* every enumeration of the set S
Perms(S) ==
    IF S = {} THEN {<<>>}
    ELSE UNION {{<<x>> \o p : p \in Perms(S \ {x})} : x \in S}

RECURSIVE ReverseSeq(_)
\* list.reverse()
ReverseSeq(s) ==
    IF s = <<>> THEN <<>> ELSE Append(ReverseSeq(Tail(s)), Head(s))

\* x comes before y in the list s
Before(s, x, y) ==
    \E i, j \in DOMAIN s : s[i] = x /\ s[j] = y /\ i < j

-----------------------------------------------------------------------------
(* The graph *)

Successors(g, n) == {e[2] : e \in {d \in g.edges : d[1] = n}}

RECURSIVE BfsFrom(_, _, _)
\* breadth-first search: the nodes seen once the frontier is exhausted
BfsFrom(g, frontier, seen) ==
    LET next == UNION {Successors(g, n) : n \in frontier} \ seen
    IN  IF next = {} THEN seen ELSE BfsFrom(g, next, seen \cup next)

\* nx.descendants(G, source): reachable from source, source excluded
descendants(g, source) == BfsFrom(g, {source}, {source}) \ {source}

ReverseGraph(g) ==
    [nodes |-> g.nodes, edges |-> {<<e[2], e[1]>> : e \in g.edges}]

\* nx.ancestors(G, source): the nodes that reach source, source excluded
ancestors(g, source) == descendants(ReverseGraph(g), source)

\* a slip: a target the graph does not hold is answered with the target alone
collect_unknown_target(g, target) ==
    [ok |-> TRUE, error |-> "",
     nodes |-> {target} \cup descendants(g, target) \cup ancestors(g, target)]

\* a slip: the callers of the target are left out of the closure
collect_without_ancestors(g, target) ==
    IF target \notin g.nodes
    THEN [ok |-> FALSE, error |-> "KeyError", nodes |-> {}]
    ELSE [ok |-> TRUE, error |-> "", nodes |-> {target} \cup descendants(g, target)]

\* a slip: the target itself is left out of the closure
collect_without_target(g, target) ==
    IF target \notin g.nodes
    THEN [ok |-> FALSE, error |-> "KeyError", nodes |-> {}]
    ELSE [ok |-> TRUE, error |-> "",
          nodes |-> descendants(g, target) \cup ancestors(g, target)]

\* collect_connected_classes(G, target)
collect_connected_classes(g, target) ==
    IF target \notin g.nodes
    THEN [ok |-> FALSE, error |-> "KeyError", nodes |-> {}]
    ELSE LET desc == descendants(g, target)
             preds == ancestors(g, target)
         IN  [ok |-> TRUE, error |-> "", nodes |-> {target} \cup desc \cup preds]

\* G.subgraph(nodes_set).copy()
Subgraph(g, nodes_set) ==
    [nodes |-> g.nodes \cap nodes_set,
     edges |-> {e \in g.edges : e[1] \in nodes_set /\ e[2] \in nodes_set}]

RECURSIVE SuccOrdersOn(_, _)
\* every way the copy can enumerate each node's successors
SuccOrdersOn(sub, S) ==
    IF S = {} THEN {<<>>}
    ELSE LET n == CHOOSE x \in S : TRUE
         IN  {(n :> p) @@ f : f \in SuccOrdersOn(sub, S \ {n}),
                               p \in Perms(Successors(sub, n))}

SuccOrders(sub) == SuccOrdersOn(sub, sub.nodes)

InDegree(sub, v) == Cardinality({e \in sub.edges : e[2] = v})

RECURSIVE SelectSeq2(_, _, _)
\* [v for v in s if indegree of v is zero / positive]
SelectSeq2(s, sub, zero) ==
    IF s = <<>> THEN <<>>
    ELSE LET rest == SelectSeq2(Tail(s), sub, zero)
         IN  IF (InDegree(sub, Head(s)) = 0) = zero
             THEN <<Head(s)>> \o rest ELSE rest

RECURSIVE KahnChildren(_, _)
\* nx.topological_generations: for child in G.neighbors(node)
KahnChildren(children, st) ==
    IF children = <<>> THEN st
    ELSE LET c == Head(children)
             d == st.indeg[c] - 1
         IN  KahnChildren(Tail(children),
                 [indeg |-> [st.indeg EXCEPT ![c] = d],
                  zero  |-> IF d = 0 THEN Append(st.zero, c) ELSE st.zero])

RECURSIVE KahnGeneration(_, _, _)
\* nx.topological_generations: for node in this_generation
KahnGeneration(generation, sord, st) ==
    IF generation = <<>> THEN st
    ELSE KahnGeneration(Tail(generation), sord,
                        KahnChildren(sord[Head(generation)], st))

RECURSIVE KahnLoop(_, _, _, _)
\* nx.topological_generations: while zero_indegree
KahnLoop(sord, indeg, zero, out) ==
    IF zero = <<>> THEN [indeg |-> indeg, out |-> out]
    ELSE LET st == KahnGeneration(zero, sord, [indeg |-> indeg, zero |-> <<>>])
         IN  KahnLoop(sord, st.indeg, st.zero, out \o zero)

\* list(nx.topological_sort(sub)): NetworkXUnfeasible when nodes are left over
topological_sort(sub, nord, sord) ==
    LET indeg == [v \in sub.nodes |-> InDegree(sub, v)]
        r == KahnLoop(sord, indeg, SelectSeq2(nord, sub, TRUE), <<>>)
    IN  IF \E v \in sub.nodes : r.indeg[v] > 0
        THEN [ok |-> FALSE, order |-> <<>>]
        ELSE [ok |-> TRUE, order |-> r.out]

RECURSIVE dfs(_, _, _)
RECURSIVE DfsEach(_, _, _)
\* the fallback's dfs(n): successors first, then n itself
dfs(sord, n, st) ==
    IF n \in st.visited THEN st
    ELSE LET st2 == DfsEach(sord, sord[n],
                            [visited |-> st.visited \cup {n}, order |-> st.order])
         IN  [visited |-> st2.visited, order |-> Append(st2.order, n)]

\* for nb in sub.successors(n): dfs(nb)   /   for n in sub.nodes(): dfs(n)
DfsEach(sord, ns, st) ==
    IF ns = <<>> THEN st
    ELSE DfsEach(sord, Tail(ns), dfs(sord, Head(ns), st))

\* a slip: the traversal starts from the first node only
DfsFromFirstOnly(nord, sord) ==
    ReverseSeq(DfsEach(sord, IF nord = <<>> THEN <<>> ELSE <<Head(nord)>>,
                       [visited |-> {}, order |-> <<>>]).order)

\* a slip: the postorder is returned without order.reverse()
DfsPostorderUnreversed(nord, sord) ==
    DfsEach(sord, nord, [visited |-> {}, order |-> <<>>]).order

\* the except branch of topologically_order_subgraph
DfsFallbackOrder(nord, sord) ==
    ReverseSeq(DfsEach(sord, nord, [visited |-> {}, order |-> <<>>]).order)

\* a slip: the order comes out callee first
order_callee_first(g, nodes_set, nord, sord) ==
    LET sub == Subgraph(g, nodes_set)
        t == topological_sort(sub, nord, sord)
    IN  IF t.ok
        THEN [order |-> ReverseSeq(t.order), fallback |-> FALSE]
        ELSE [order |-> DfsFallbackOrder(nord, sord), fallback |-> TRUE]

\* topologically_order_subgraph(G, nodes_set), the copy enumerating its
\* nodes as nord and each node's successors as sord[n]
topologically_order_subgraph(g, nodes_set, nord, sord) ==
    LET sub == Subgraph(g, nodes_set)
        t == topological_sort(sub, nord, sord)
    IN  IF t.ok
        THEN [order |-> t.order, fallback |-> FALSE]
        ELSE [order |-> DfsFallbackOrder(nord, sord), fallback |-> TRUE]

-----------------------------------------------------------------------------
(* Java sources, as far as the extractors read them                        *)
(*                                                                         *)
(* A source file is a package name ("" when it declares none), its import  *)
(* declarations and its class declarations in text order.  A method body   *)
(* is a list of statements: a declaration "Type name = ...;" or a call     *)
(* "a.b.m(...)" written as the dotted path <<a, b, m>>.                    *)

Decl(t, v) == [kind |-> "decl", type |-> t, name |-> v, path |-> <<>>]

Call(path) == [kind |-> "call", type |-> "", name |-> "", path |-> path]

Method(n, body) == [name |-> n, body |-> body]

Class(n, ext, impl, fields, methods) ==
    [name |-> n, extends |-> ext, implements |-> impl,
     fields |-> fields, methods |-> methods]

\* "import pkg.name;", name "*" for a wildcard import
Import(pkg, name) == [pkg |-> pkg, name |-> name]

Source(pkg, imports, classes) ==
    [package |-> pkg, imports |-> imports, classes |-> classes]

\* identifiers that start with an upper-case letter
Capitalised == {"Foo", "Bar", "Baz", "Ext"}

\* a class name that no file of a project defines
External == "Ext"

\* str.split('.') over the names a run can be given
SplitDots(s) ==
    CASE s = "q.Bar" -> <<"q", "Bar">>
      [] s = "q.Nope" -> <<"q", "Nope">>
      [] OTHER -> <<s>>

\* s.split('.')[-1]
LastComponent(s) == LET parts == SplitDots(s) IN parts[Len(parts)]

-----------------------------------------------------------------------------
(* Python dicts: functions whose domain is the key set *)

EmptyDict == <<>>

\* d[k] = v: a later assignment to the same key overwrites the earlier one
Put(d, k, v) == (k :> v) @@ d


RECURSIVE ConcatAll(_)
ConcatAll(ss) == IF ss = <<>> THEN <<>> ELSE Head(ss) \o ConcatAll(Tail(ss))

\* all but the last element
Front(s) == SubSeq(s, 1, Len(s) - 1)

\* re.findall(r'([A-Za-z_][A-Za-z0-9_\.]*?)\s*\.', text) on a text holding
\* the dotted paths `paths`: the lazy group stops at the first dot, so every
\* identifier that a dot follows is a token of its own
DottedTokens(paths) == ConcatAll([i \in DOMAIN paths |-> Front(paths[i])])

\* the dotted paths in the text of a list of statements
StmtPaths(stmts) ==
    LET calls == SelectSeq(stmts, LAMBDA st : st.kind = "call")
    IN  [i \in DOMAIN calls |-> calls[i].path]

\* the statements of a class in text order: fields, then each method body
ClassStmts(c) ==
    c.fields \o ConcatAll([i \in DOMAIN c.methods |-> c.methods[i].body])

-----------------------------------------------------------------------------
(* extract_from_text_fallback *)

RECURSIVE FallbackVars(_, _)
\* re.finditer(r'([A-Z][A-Za-z0-9_]*)\s+([a-zA-Z_]...)\s*(=|;)'): Type name
FallbackVars(stmts, acc) ==
    IF stmts = <<>> THEN acc
    ELSE LET st == Head(stmts)
         IN  FallbackVars(Tail(stmts),
                 IF st.kind = "decl" /\ st.type \in Capitalised
                 THEN Put(acc, st.name, st.type) ELSE acc)

RECURSIVE FallbackMethods(_, _)
\* methods[mname] = {...}: a later method of the same name overwrites
FallbackMethods(methods, acc) ==
    IF methods = <<>> THEN acc
    ELSE LET m == Head(methods)
         IN  FallbackMethods(Tail(methods),
                 Put(acc, m.name,
                     [snippet |-> StmtPaths(m.body), node |-> "None",
                      vars |-> FallbackVars(m.body, EmptyDict)]))

\* the greedy group of r'extends\s+([\w\.,\s]+)' runs on into an implements
\* clause of the same header: its first item is then no class name
FallbackExtends(c) ==
    IF c.extends = <<>> THEN <<>>
    ELSE IF c.implements = <<>> THEN c.extends
    ELSE <<"extends-clause running into implements">> \o Tail(c.implements)

FallbackClass(c) ==
    [node |-> "None",
     methods |-> FallbackMethods(c.methods, EmptyDict),
     extends |-> FallbackExtends(c),
     implements |-> c.implements,
     class_vars |-> FallbackVars(ClassStmts(c), EmptyDict),
     full_snippet |-> c]

RECURSIVE FallbackClasses(_, _)
FallbackClasses(classes, acc) ==
    IF classes = <<>> THEN acc
    ELSE FallbackClasses(Tail(classes),
             Put(acc, Head(classes).name, FallbackClass(Head(classes))))

\* re.findall(r'([A-Za-z_][A-Za-z0-9_]*)\s*\.', text): each entry is one
\* identifier, the dot after it is not kept
FallbackMethodCalls(src) ==
    LET imps == src.imports
        recv == DottedTokens(
                    ConcatAll([i \in DOMAIN src.classes |->
                                  StmtPaths(ClassStmts(src.classes[i]))]))
    IN  [i \in DOMAIN imps |-> <<imps[i].pkg>>] \o
        [i \in DOMAIN recv |-> <<recv[i]>>]

extract_from_text_fallback(src) ==
    [package |-> IF src.package = "" THEN "None" ELSE src.package,
     imports |-> src.imports,
     classes |-> FallbackClasses(src.classes, EmptyDict),
     method_calls |-> FallbackMethodCalls(src)]

-----------------------------------------------------------------------------
(* extract_from_tree.  The syntax tree comes from a grammar outside the    *)
(* repository: `direct` says whether it hands a class's method             *)
(* declarations over as direct children of the class node (the only place  *)
(* the extractor looks) or nests them in a body node.                      *)

RECURSIVE TreeMethods(_, _)
\* cls_meta['methods'][mname] = {node, start_byte, end_byte, snippet}
TreeMethods(methods, acc) ==
    IF methods = <<>> THEN acc
    ELSE LET m == Head(methods)
         IN  TreeMethods(Tail(methods),
                 Put(acc, m.name,
                     [snippet |-> StmtPaths(m.body), node |-> "node",
                      vars |-> EmptyDict]))

TreeClass(c, direct) ==
    [node |-> "node",
     methods |-> IF direct THEN TreeMethods(c.methods, EmptyDict) ELSE EmptyDict,
     extends |-> IF c.extends = <<>> THEN <<>> ELSE <<c.extends[1]>>,
     implements |-> c.implements,
     class_vars |-> EmptyDict,
     full_snippet |-> c]

RECURSIVE TreeClasses(_, _, _)
TreeClasses(classes, direct, acc) ==
    IF classes = <<>> THEN acc
    ELSE TreeClasses(Tail(classes), direct,
             Put(acc, Head(classes).name, TreeClass(Head(classes), direct)))

\* the text of every method_invocation, scoped_identifier and field_access
TreeMethodCalls(src) ==
    LET imps == SelectSeq(src.imports, LAMBDA i : i.name # "*")
    IN  [i \in DOMAIN imps |-> <<imps[i].pkg, imps[i].name>>] \o
        ConcatAll([i \in DOMAIN src.classes |->
                      StmtPaths(ClassStmts(src.classes[i]))])

extract_from_tree(src, direct) ==
    [package |-> IF src.package = "" THEN "None"
                 ELSE "package " \o src.package \o ";",
     imports |-> src.imports,
     classes |-> TreeClasses(src.classes, direct, EmptyDict),
     method_calls |-> TreeMethodCalls(src)]

-----------------------------------------------------------------------------
(* build_dependency_graph *)


\* G.add_edge(u, v): networkx adds the endpoints it does not know
AddEdges(g, es) ==
    [nodes |-> g.nodes \cup {e[1] : e \in es} \cup {e[2] : e \in es},
     edges |-> g.edges \cup es]

\* info.get('package') or ''
PackageOrEmpty(pkg) == IF pkg = "None" THEN "" ELSE pkg

RECURSIVE RegisterClasses(_, _)
\* the "register classes" loop: class_to_file[name] = {file, package, meta},
\* the file registered last keeps the entry
RegisterClasses(metas, reg) ==
    IF metas = <<>> THEN reg
    ELSE LET meta == Head(metas)
             mine == [n \in DOMAIN meta.classes |->
                         [file |-> meta.path, package |-> meta.package,
                          meta |-> meta.classes[n]]]
         IN  RegisterClasses(Tail(metas), mine @@ reg)

RECURSIVE DuplicateWarnings(_, _)
\* the names the registration loop warns about
DuplicateWarnings(metas, seen) ==
    IF metas = <<>> THEN {}
    ELSE (DOMAIN Head(metas).classes \cap seen) \cup
         DuplicateWarnings(Tail(metas), seen \cup DOMAIN Head(metas).classes)

\* a slip: the edge is added whether or not the supertype is registered
SupertypesUnguarded(cls_meta, reg) ==
    Range(cls_meta.extends \o cls_meta.implements)

\* for sup in extends + implements: if sup in class_to_file
RegisteredSupertypes(cls_meta, reg) ==
    {sup \in Range(cls_meta.extends \o cls_meta.implements) : sup \in DOMAIN reg}

\* the "add inheritance edges" loop, over the registry's entries
InheritanceEdges(reg) ==
    UNION {{<<name, sup>> : sup \in RegisteredSupertypes(reg[name].meta, reg)} :
           name \in DOMAIN reg}

\* a slip: simple_map kept across calls, so a second call appends to the
\* lists the first call left
BuildSimpleMapShared(reg) ==
    [simple \in DOMAIN reg |->
        (IF simple \in DOMAIN simple_map THEN simple_map[simple] ELSE <<>>) \o
        <<[simple |-> simple,
           package |-> PackageOrEmpty(reg[simple].package),
           file |-> reg[simple].file]>>]

\* simple_map: one candidate per entry of class_to_file
BuildSimpleMap(reg) ==
    [simple \in DOMAIN reg |->
        <<[simple |-> simple,
           package |-> PackageOrEmpty(reg[simple].package),
           file |-> reg[simple].file]>>]

\* step 1: a variable's declared type replaces the token's simple name
SimpleName(tok, method_vars, class_vars) ==
    IF tok \in DOMAIN method_vars THEN LastComponent(method_vars[tok])
    ELSE IF tok \in DOMAIN class_vars THEN LastComponent(class_vars[tok])
    ELSE LastComponent(tok)

\* re.match(r'import\s+([\w\.]+);', imp): the group cannot hold a "*"
ImportFq(imp) == [matched |-> imp.name # "*", pkg |-> imp.pkg, name |-> imp.name]

HasCandidateIn(smap, simple, pkg) ==
    /\ simple \in DOMAIN smap
    /\ \E i \in DOMAIN smap[simple] : smap[simple][i].package = pkg

RECURSIVE ImportLoop(_, _, _)
\* step 2: for imp in imports, first hit breaks the loop
ImportLoop(imports, simple, smap) ==
    IF imports = <<>> THEN "None"
    ELSE LET fq == ImportFq(Head(imports))
         IN  IF ~fq.matched THEN ImportLoop(Tail(imports), simple, smap)
             ELSE IF fq.name = simple THEN simple
             ELSE IF fq.name = "*" /\ HasCandidateIn(smap, simple, fq.pkg)
                  THEN simple
             ELSE ImportLoop(Tail(imports), simple, smap)

\* a slip: the chain without its last step, the global uniqueness test
ResolveWithoutUniqueness(simple, imports, file_pkg, smap) ==
    LET byImport == ImportLoop(imports, simple, smap)
    IN  IF byImport # "None" THEN byImport
        ELSE IF file_pkg # "" /\ HasCandidateIn(smap, simple, file_pkg)
             THEN simple
        ELSE "None"

\* steps 2 to 4 for one simple name: the resolved name or "None"
Resolve(simple, imports, file_pkg, smap) ==
    LET byImport == ImportLoop(imports, simple, smap)
    IN  IF byImport # "None" THEN byImport
        ELSE IF file_pkg # "" /\ HasCandidateIn(smap, simple, file_pkg)
             THEN simple
        ELSE IF simple \in DOMAIN smap /\ Len(smap[simple]) = 1 THEN simple
        ELSE "None"

\* the callees the tokens of one method body give
MethodCallees(mm, class_vars, imports, file_pkg, smap, known) ==
    LET tokens == DottedTokens(mm.snippet)
        kept == {tokens[i] : i \in DOMAIN tokens} \ {"this", "super"}
        resolved == {Resolve(SimpleName(tok, mm.vars, class_vars),
                             imports, file_pkg, smap) : tok \in kept}
    IN  {r \in resolved : r # "None" /\ r \in known}

\* the callees the file-level method_calls give to every class of the file
FileLevelCallees(meta, known) ==
    LET tokens == ConcatAll([i \in DOMAIN meta.method_calls |->
                                DottedTokens(<<meta.method_calls[i]>>)])
    IN  {LastComponent(tokens[i]) : i \in DOMAIN tokens} \cap known

\* the "add call edges" loops for one file
CallEdgesOfFile(meta, smap, known) ==
    UNION {
      LET cls_meta == meta.classes[caller]
          fromMethods ==
              UNION {MethodCallees(cls_meta.methods[m], cls_meta.class_vars,
                                   meta.imports, PackageOrEmpty(meta.package),
                                   smap, known) :
                     m \in DOMAIN cls_meta.methods}
      IN  {<<caller, callee>> :
              callee \in fromMethods \cup FileLevelCallees(meta, known)} :
      caller \in DOMAIN meta.classes}

build_dependency_graph(metas) ==
    LET reg == RegisterClasses(metas, EmptyDict)
        smap == BuildSimpleMap(reg)
        known == DOMAIN reg
        g0 == [nodes |-> DOMAIN reg, edges |-> {}]
        g1 == AddEdges(g0, InheritanceEdges(reg))
        g2 == AddEdges(g1, UNION {CallEdgesOfFile(metas[i], smap, known) :
                                   i \in DOMAIN metas})
    IN  [G |-> g2, class_to_file |-> reg, simple_map |-> smap,
         duplicates |-> DuplicateWarnings(metas, {})]

-----------------------------------------------------------------------------
(* extract_code_snippets and write_outputs *)

\* the snippet of one class, or the AttributeError of reading the span of a
\* class that has no syntax node
ClassSnippet(cls_name, info) ==
    LET cls_meta == info.meta
    IN  IF DOMAIN cls_meta.methods # {}
        THEN [ok |-> TRUE, class |-> cls_name, file |-> info.file,
              code |-> [header |-> cls_name, methods |-> cls_meta.methods],
              lines |-> IF cls_meta.node # "None" THEN "node span"
                        ELSE "keyword and name heuristic"]
        ELSE IF cls_meta.node = "None"
        THEN [ok |-> FALSE, class |-> cls_name, file |-> info.file,
              code |-> <<>>, lines |-> "AttributeError"]
        ELSE [ok |-> TRUE, class |-> cls_name, file |-> info.file,
              code |-> cls_meta.full_snippet, lines |-> "node span"]

RECURSIVE extract_code_snippets(_, _, _)
\* for cls_name in order: ... snippets.append(...)
extract_code_snippets(ord, reg, acc) ==
    IF ord = <<>> THEN [ok |-> TRUE, snippets |-> acc]
    ELSE IF Head(ord) \notin DOMAIN reg
    THEN extract_code_snippets(Tail(ord), reg, acc)
    ELSE LET sn == ClassSnippet(Head(ord), reg[Head(ord)])
         IN  IF sn.ok THEN extract_code_snippets(Tail(ord), reg, Append(acc, sn))
             ELSE [ok |-> FALSE, snippets |-> acc]

-----------------------------------------------------------------------------
(* The projects a run is given *)

\* most files of a project whose graph is built
MaxFiles == 3

\* most files of a project a whole run is followed on
MaxRunFiles == 2

\* plain files: Bar and x are each defined in two packages, and Foo once more
PlainFiles ==
    {Source("p", <<>>, <<Class("Bar", <<>>, <<>>, <<>>, <<>>)>>),
     Source("q", <<>>, <<Class("Bar", <<"Foo">>, <<>>, <<>>, <<>>)>>),
     Source("q", <<>>, <<Class("x", <<>>, <<>>, <<>>, <<>>)>>),
     Source("p", <<>>, <<Class("x", <<"Foo">>, <<>>, <<>>, <<>>)>>),
     Source("q", <<>>, <<Class("Foo", <<>>, <<>>, <<>>,
        <<Method("g", <<Call(<<"x", "m">>)>>)>>)>>),
     Source("q", <<>>, <<Class("Bar", <<External>>, <<>>, <<>>,
        <<Method("g", <<Call(<<"Foo", "m">>)>>)>>)>>)}

\* the bodies of the one method of a caller file
CallerBodies ==
    {<<Call(<<"Bar", "m">>)>>,
     <<Call(<<"x", "m">>)>>,
     <<Call(<<External, "m">>)>>,
     <<Call(<<"this", "m">>)>>,
     <<Decl("Bar", "x"), Call(<<"x", "thing">>)>>,
     <<Decl(External, "x"), Call(<<"x", "thing">>)>>}

\* files whose class Foo has one method
CallerFiles ==
    {Source(pkg, imps, <<Class("Foo", <<>>, <<>>, <<>>, <<Method("f", body)>>)>>) :
        pkg \in {"", "p"},
        imps \in {<<>>, <<Import("q", "Bar")>>},
        body \in CallerBodies}

\* files with an overloaded method, a field, two classes, a wildcard import,
\* an import of an external class, an extends and an implements clause, a
\* self-call
OtherFiles ==
    {Source("p", <<>>, <<Class("Foo", <<>>, <<>>, <<>>,
        <<Method("f", <<Call(<<"Bar", "m">>)>>), Method("f", <<>>)>>)>>),
     Source("p", <<>>, <<Class("Foo", <<>>, <<>>, <<Decl("Bar", "x")>>,
        <<Method("f", <<Call(<<"x", "m">>)>>)>>)>>),
     Source("p", <<>>,
        <<Class("Foo", <<>>, <<>>, <<>>, <<Method("f", <<Call(<<"Bar", "m">>)>>)>>),
          Class("Baz", <<>>, <<>>, <<>>, <<>>)>>),
     Source("", <<Import("q", "*")>>, <<Class("Foo", <<>>, <<>>, <<>>,
        <<Method("f", <<Call(<<"Bar", "m">>)>>)>>)>>),
     Source("p", <<Import("q", External)>>, <<Class("Foo", <<>>, <<>>, <<>>,
        <<Method("f", <<Call(<<External, "m">>)>>)>>)>>),
     Source("p", <<>>, <<Class("Foo", <<"Bar">>, <<"x">>, <<>>, <<>>)>>),
     Source("p", <<>>, <<Class("Foo", <<>>, <<>>, <<>>,
        <<Method("f", <<Call(<<"Foo", "g">>)>>)>>)>>)}

RichFiles == CallerFiles \cup OtherFiles

FileChoices == PlainFiles \cup RichFiles

SeqsUpTo(S, n) == UNION {[1..k -> S] : k \in 1..n}

\* projects of at most MaxFiles files, at most one of them a rich file
Projects ==
    {fs \in SeqsUpTo(FileChoices, MaxFiles) :
        Cardinality({i \in DOMAIN fs : fs[i] \in RichFiles}) <= 1}

\* the files of the projects whole runs are followed on
RunFiles ==
    PlainFiles \cup
    {f \in OtherFiles : Len(f.classes) = 2 \/ Len(f.classes[1].methods) = 2}

RunProjects == SeqsUpTo(RunFiles, MaxRunFiles)

\* the --target values of a run
Targets == {"Foo", "Bar", "q.Bar", "q.Nope", Missing}

-----------------------------------------------------------------------------
(* run_flow *)

NoGraph == [nodes |-> {}, edges |-> {}]

InitRun(projects) ==
    /\ files \in projects
    /\ pc = "start"
    /\ parser = "None" /\ all_meta = <<>>
    /\ G = NoGraph /\ class_to_file = EmptyDict /\ simple_map = EmptyDict
    /\ target_class = "" /\ connected = {} /\ order = <<>>
    /\ snippets = <<>> /\ diag = {} /\ outputs = {}

\* root.exists() and find_java_files: a root that does not exist raises
\* FileNotFoundError, a root without Java files ends the run
Scan ==
    /\ pc = "start"
    /\ IF files = <<>>
       THEN \E root_exists \in BOOLEAN :
               pc' = IF root_exists THEN "no_files" ELSE "input_not_found"
       ELSE pc' = "scanned"
    /\ UNCHANGED <<files, parser, all_meta, G, class_to_file, simple_map,
                   target_class, connected, order, snippets, diag, outputs>>

\* meta = extract_from_tree(...) or extract_from_text_fallback(...);
\* meta['path'] = str(jf)
ParseFile(src, path, p) ==
    LET meta == IF p = "None" THEN extract_from_text_fallback(src)
                ELSE extract_from_tree(src, p = "direct")
    IN  [path |-> path, package |-> meta.package, imports |-> meta.imports,
         classes |-> meta.classes, method_calls |-> meta.method_calls]

RECURSIVE ParseAll(_, _, _, _)
\* the parse loop from file i on: a file that raises is skipped
ParseAll(fs, i, p, failed) ==
    IF i > Len(fs) THEN <<>>
    ELSE IF i \in failed THEN ParseAll(fs, i + 1, p, failed)
    ELSE <<ParseFile(fs[i], i, p)>> \o ParseAll(fs, i + 1, p, failed)

\* the parser is loaded or not, then every file is parsed; `failed` are the
\* files whose reading or parsing raises
ParseFilesWith(failsets) ==
    /\ pc = "scanned"
    /\ \E p \in {"None", "direct", "nested"}, failed \in failsets :
          /\ parser' = p
          /\ all_meta' = ParseAll(files, 1, p, failed)
          /\ diag' = IF failed = {} THEN diag ELSE diag \cup {"parse failure"}
    /\ pc' = "parsed"
    /\ UNCHANGED <<files, G, class_to_file, simple_map, target_class,
                   connected, order, snippets, outputs>>

ParseFiles == ParseFilesWith(SUBSET (1..Len(files)))

ParseFilesAllReadable == ParseFilesWith({{}})

\* G, class_to_file = build_dependency_graph(all_meta)
BuildGraph ==
    /\ pc = "parsed"
    /\ LET r == build_dependency_graph(all_meta)
       IN  /\ G' = r.G
           /\ class_to_file' = r.class_to_file
           /\ simple_map' = r.simple_map
           /\ diag' = IF r.duplicates = {} THEN diag
                      ELSE diag \cup {"duplicate class name"}
    /\ pc' = "built"
    /\ UNCHANGED <<files, parser, all_meta, target_class, connected, order,
                   snippets, outputs>>

\* the target as run_flow hands it to collect_connected_classes
MapTarget(g, given) ==
    IF given \notin g.nodes /\ LastComponent(given) \in g.nodes
    THEN LastComponent(given) ELSE given

\* the target is mapped, then connected = collect_connected_classes(G, t);
\* on KeyError the run prints the known classes and returns.  A run's target
\* is read here for the first time, so it is drawn here.
CollectConnected ==
    /\ pc = "built"
    /\ \E given \in (IF target_class = "" THEN Targets ELSE {target_class}) :
          LET t == MapTarget(G, given)
              r == collect_connected_classes(G, t)
          IN  /\ target_class' = t
              /\ IF r.ok
                 THEN /\ connected' = r.nodes
                      /\ pc' = "collected"
                      /\ diag' = diag
                 ELSE /\ connected' = {}
                      /\ pc' = "target_not_found"
                      /\ diag' = diag \cup {"KeyError"}
    /\ UNCHANGED <<files, parser, all_meta, G, class_to_file, simple_map,
                   order, snippets, outputs>>

\* order = topologically_order_subgraph(G, connected)
OrderSubgraph ==
    /\ pc = "collected"
    /\ LET sub == Subgraph(G, connected)
       IN  \E nord \in Perms(sub.nodes), sord \in SuccOrders(sub) :
              LET r == topologically_order_subgraph(G, connected, nord, sord)
              IN  /\ order' = r.order
                  /\ diag' = IF r.fallback THEN diag \cup {"cycle"} ELSE diag
    /\ pc' = "ordered"
    /\ UNCHANGED <<files, parser, all_meta, G, class_to_file, simple_map,
                   target_class, connected, snippets, outputs>>

\* imports_set, snippets = extract_code_snippets(order, class_to_file)
ExtractSnippets ==
    /\ pc = "ordered"
    /\ LET r == extract_code_snippets(order, class_to_file, <<>>)
       IN  /\ snippets' = r.snippets
           /\ pc' = IF r.ok THEN "extracted" ELSE "crashed"
           /\ diag' = IF r.ok THEN diag ELSE diag \cup {"AttributeError"}
    /\ UNCHANGED <<files, parser, all_meta, G, class_to_file, simple_map,
                   target_class, connected, order, outputs>>

\* write_outputs: <target>_flow.java and <target>_flow.json
WriteOutputs ==
    /\ pc = "extracted"
    /\ outputs' = {"flow.java", "flow.json"}
    /\ pc' = "written"
    /\ UNCHANGED <<files, parser, all_meta, G, class_to_file, simple_map,
                   target_class, connected, order, snippets, diag>>

Init == InitRun(RunProjects \cup {<<>>})

Next ==
    \/ Scan
    \/ ParseFiles
    \/ BuildGraph
    \/ CollectConnected
    \/ OrderSubgraph
    \/ ExtractSnippets
    \/ WriteOutputs

\* a whole run of run_flow
Spec == Init /\ [][Next]_vars

InitBuild == InitRun(Projects)

NextBuild == Scan \/ ParseFilesAllReadable \/ BuildGraph

\* the graph built from every readable project
SpecBuild == InitBuild /\ [][NextBuild]_vars

\* build_dependency_graph called a second time on the same metadata list
BuildAgain ==
    /\ pc = "built"
    /\ LET r == build_dependency_graph(all_meta)
       IN  /\ G' = r.G
           /\ class_to_file' = r.class_to_file
           /\ simple_map' = r.simple_map
           /\ diag' = IF r.duplicates = {} THEN diag
                      ELSE diag \cup {"duplicate class name"}
    /\ pc' = "rebuilt"
    /\ UNCHANGED <<files, parser, all_meta, target_class, connected, order,
                   snippets, outputs>>

NextRebuild == Scan \/ ParseFilesAllReadable \/ BuildGraph \/ BuildAgain

\* the graph built twice from every readable project
SpecRebuild == InitBuild /\ [][NextRebuild]_vars

-----------------------------------------------------------------------------
(* The two graph functions applied to drawn graphs *)

\* every graph over a set of GraphNames with at most MaxEdges edges
Graphs ==
    UNION {{[nodes |-> N, edges |-> E] :
                E \in {X \in SUBSET (N \X N) : Cardinality(X) <= MaxEdges}} :
           N \in SUBSET GraphNames}

InitGraph ==
    /\ G \in Graphs
    /\ files = <<>> /\ parser = "None" /\ all_meta = <<>>
    /\ class_to_file = EmptyDict /\ simple_map = EmptyDict
    /\ order = <<>> /\ snippets = <<>> /\ diag = {} /\ outputs = {}
    /\ \/ /\ pc = "built"
          /\ target_class \in GraphNames
          /\ connected = {}
       \/ /\ pc = "collected"
          /\ target_class = Missing
          /\ connected \in SUBSET G.nodes

NextGraph == CollectConnected \/ OrderSubgraph

SpecGraph == InitGraph /\ [][NextGraph]_vars

-----------------------------------------------------------------------------
(* Paths, stated without the search the code uses *)

RECURSIVE PathVia(_, _, _, _)
\* a directed path of one edge or more from u to v whose inner nodes are in S
PathVia(g, S, u, v) ==
    IF S = {} THEN <<u, v>> \in g.edges
    ELSE LET k == CHOOSE x \in S : TRUE
         IN  \/ PathVia(g, S \ {k}, u, v)
             \/ PathVia(g, S \ {k}, u, k) /\ PathVia(g, S \ {k}, k, v)

HasPath(g, u, v) == PathVia(g, g.nodes, u, v)

HasCycle(g) == \E n \in g.nodes : HasPath(g, n, n)

WithoutSelfEdges(g) ==
    [nodes |-> g.nodes, edges |-> {e \in g.edges : e[1] # e[2]}]

IsPermutationOf(s, S) == Len(s) = Cardinality(S) /\ Range(s) = S

-----------------------------------------------------------------------------
(* Claims about the closure and the ordering *)

\* C1: the closure of a node t of G is exactly t, the nodes t reaches and the
\* nodes that reach t: t is in it, every other member has a directed path to
\* or from t, and no node with such a path is left out.
C1_ClosureIsBidirectionalReach ==
    (pc = "collected" /\ target_class \in G.nodes) =>
        /\ target_class \in connected
        /\ connected = {target_class} \cup
              {n \in G.nodes : \/ HasPath(G, target_class, n)
                               \/ HasPath(G, n, target_class)}

\* a closure with a caller and a callee of the target, and a class left out
C1_Witness ==
    /\ pc = "collected" /\ target_class \in G.nodes
    /\ \E a, c \in connected \ {target_class} :
          /\ a # c
          /\ <<a, target_class>> \in G.edges
          /\ <<target_class, c>> \in G.edges
    /\ G.nodes \ connected # {}

\* C2: over an acyclic induced subgraph the order puts u before v for every
\* edge u -> v of the subgraph (caller before callee); for the chain
\* Controller -> Service -> Repository (a -> t -> c) and target Service the
\* closure is the three classes and the order is Controller, Service,
\* Repository.
C2_AcyclicOrderIsTopological ==
    pc = "ordered" =>
        LET sub == Subgraph(G, connected)
        IN  /\ ~HasCycle(sub) =>
                 \A e \in sub.edges : Before(order, e[1], e[2])
            /\ \A a, c \in G.nodes :
                 (/\ Cardinality({a, target_class, c}) = 3
                  /\ G.edges = {<<a, target_class>>, <<target_class, c>>})
                 => (connected = {a, target_class, c}
                     /\ order = <<a, target_class, c>>)

\* the chain a -> target -> c has been ordered
C2_Witness ==
    /\ pc = "ordered" /\ "cycle" \notin diag
    /\ \E a, c \in G.nodes :
          /\ Cardinality({a, target_class, c}) = 3
          /\ G.edges = {<<a, target_class>>, <<target_class, c>>}
          /\ order = <<a, target_class, c>>

\* C3: over an induced subgraph with a cycle the ordering returns a list,
\* whatever way the subgraph enumerates its nodes and successors, and the
\* list holds every member of the node set exactly once and nothing else.
C3_CyclicOrderIsPermutation ==
    /\ pc = "collected" =>
          LET sub == Subgraph(G, connected)
          IN  HasCycle(sub) =>
                \A nord \in Perms(sub.nodes), sord \in SuccOrders(sub) :
                   LET r == topologically_order_subgraph(G, connected, nord, sord)
                   IN  r.fallback /\ IsPermutationOf(r.order, connected)
    /\ (pc = "ordered" /\ HasCycle(Subgraph(G, connected))) =>
          /\ IsPermutationOf(order, connected)
          /\ "cycle" \in diag

\* the two-node cycle A -> B, B -> A ordered by the fallback, beside a third
\* node that no traversal from the first node reaches
C3_Witness ==
    /\ pc = "ordered" /\ "cycle" \in diag
    /\ \E a, b \in connected :
          a # b /\ <<a, b>> \in G.edges /\ <<b, a>> \in G.edges
    /\ Cardinality(connected) >= 3

\* C9: self-edges never change a closure: the closure of t in G is its
\* closure in G without self-edges, and a node whose only edge is its own
\* self-edge has the closure {t}.
C9_SelfEdgesDoNotInflate ==
    (pc = "collected" /\ target_class \in G.nodes) =>
        /\ connected =
              collect_connected_classes(WithoutSelfEdges(G), target_class).nodes
        /\ (\A e \in G.edges :
               (e[1] = target_class \/ e[2] = target_class)
               => e = <<target_class, target_class>>)
            => connected = {target_class}

\* the closure of a class whose only edge is a self-edge
C9_Witness ==
    /\ pc = "collected" /\ target_class \in G.nodes
    /\ <<target_class, target_class>> \in G.edges
    /\ \A e \in G.edges :
          (e[1] = target_class \/ e[2] = target_class)
          => e = <<target_class, target_class>>
    /\ Cardinality(G.edges) >= 2
    /\ connected = {target_class}

-----------------------------------------------------------------------------
(* Claims about the graph built from a project *)

\* the class names the sources of a project declare
SourceNames(fs) ==
    UNION {{fs[i].classes[j].name : j \in DOMAIN fs[i].classes} : i \in DOMAIN fs}

\* the class names the metadata defines
MetaNames(metas) == UNION {DOMAIN metas[i].classes : i \in DOMAIN metas}

\* the metadata entries, in discovery order, that define the class n
DefiningMetas(metas, n) ==
    SelectSeq(metas, LAMBDA meta : n \in DOMAIN meta.classes)

\* the supertype and interface names a source class writes
SourceSupers(c) == Range(c.extends) \cup Range(c.implements)

\* the first identifiers of the calls in a source class
SourceReceivers(c) ==
    LET paths == StmtPaths(ClassStmts(c))
    IN  {paths[i][1] : i \in DOMAIN paths}

\* C4: once the graph is built its node set is exactly the set of class
\* names the metadata (here: every source file) defines, which is the key
\* set of the class registry; both endpoints of every edge are nodes; a
\* supertype, interface or call token that names a class no file defines
\* adds no node and no edge.
C4_NodesAreDefinedClasses ==
    pc = "built" =>
        /\ G.nodes = MetaNames(all_meta)
        /\ G.nodes = SourceNames(files)
        /\ G.nodes = DOMAIN class_to_file
        /\ \A e \in G.edges : e[1] \in G.nodes /\ e[2] \in G.nodes
        /\ External \notin G.nodes
        /\ \A e \in G.edges : e[1] # External /\ e[2] # External

\* a graph with an edge, built from a project that extends an external
\* class and from one that imports and calls an external class
C4_Witness ==
    /\ pc = "built"
    /\ G.edges # {}
    /\ \E i \in DOMAIN files : \E j \in DOMAIN files[i].classes :
          /\ External \in SourceSupers(files[i].classes[j])
    /\ \E i \in DOMAIN files : \E j \in DOMAIN files[i].classes :
          /\ External \in SourceReceivers(files[i].classes[j])
          /\ \E k \in DOMAIN files[i].imports : files[i].imports[k].name = External

\* the source classes named n, as <<file, class>> positions
SourceDefs(fs, n) ==
    {<<i, j>> \in (DOMAIN fs) \X (1..2) :
        j \in DOMAIN fs[i].classes /\ fs[i].classes[j].name = n}

\* C5: a method of class Foo declares a local variable v of type T and
\* calls v.thing(): the graph has the edge Foo -> T when T is a project
\* class, and no edge from Foo to a project class that merely has the
\* variable's name.  Stated for a class defined once, without supertypes and
\* fields, whose only method holds the declaration and then the call.
C5_LocalTypingWins ==
    pc = "built" =>
        \A i \in DOMAIN files : \A j \in DOMAIN files[i].classes :
            LET c == files[i].classes[j]
            IN  (/\ SourceDefs(files, c.name) = {<<i, j>>}
                 /\ SourceSupers(c) = {} /\ c.fields = <<>>
                 /\ Len(c.methods) = 1
                 /\ Len(c.methods[1].body) = 2
                 /\ c.methods[1].body[1].kind = "decl"
                 /\ c.methods[1].body[2].kind = "call"
                 /\ c.methods[1].body[2].path[1] = c.methods[1].body[1].name)
                =>
                LET T == c.methods[1].body[1].type
                    v == c.methods[1].body[1].name
                IN  /\ T \in G.nodes => <<c.name, T>> \in G.edges
                    /\ (v \in G.nodes /\ v # T) => <<c.name, v>> \notin G.edges

\* C6: under the regex fallback, a call in a method of class C whose
\* receiver is the simple name of a project class T (and no variable of the
\* method or field of the class), or a local variable the method declares
\* with type T, makes C and T nodes and adds the edge C -> T.
C6_FallbackCallGivesEdge ==
    (pc = "built" /\ parser = "None") =>
        \A i \in DOMAIN files : \A j \in DOMAIN files[i].classes :
            LET c == files[i].classes[j]
            IN  \A k \in DOMAIN c.methods : \A a \in DOMAIN c.methods[k].body :
                  LET body == c.methods[k].body
                      st == body[a]
                      r == st.path[1]
                      localTypes == {body[b].type : b \in
                                       {d \in DOMAIN body : body[d].kind = "decl"
                                                            /\ body[d].name = r}}
                      isField == \E f \in DOMAIN c.fields : c.fields[f].name = r
                  IN  (st.kind = "call" /\ r \notin {"this", "super"}) =>
                        \A T \in SourceNames(files) :
                           (\/ localTypes = {} /\ ~isField /\ r = T
                            \/ T \in localTypes)
                           => /\ c.name \in G.nodes
                              /\ T \in G.nodes
                              /\ <<c.name, T>> \in G.edges

\* C7: a call token whose simple name (after variable typing) is defined by
\* two or more files, and which no exact import, no wildcard import and no
\* class of the caller's package accounts for, adds no edge.  Stated for a
\* caller defined once that neither extends or implements the name nor gets
\* it from the file-level calls.
C7_AmbiguousNameUnresolved ==
    pc = "built" =>
        \A i \in DOMAIN all_meta :
            LET meta == all_meta[i]
            IN  \A caller \in DOMAIN meta.classes :
                  LET cm == meta.classes[caller]
                  IN  \A m \in DOMAIN cm.methods :
                        \A tok \in Range(DottedTokens(cm.methods[m].snippet))
                                   \ {"this", "super"} :
                          LET S == SimpleName(tok, cm.methods[m].vars, cm.class_vars)
                          IN  (/\ Len(DefiningMetas(all_meta, S)) >= 2
                               /\ \A q \in DOMAIN meta.imports :
                                     /\ meta.imports[q].name # S
                                     /\ meta.imports[q].name # "*"
                               /\ \A d \in DOMAIN all_meta :
                                     all_meta[d].package = meta.package
                                     => S \notin DOMAIN all_meta[d].classes
                               /\ Len(DefiningMetas(all_meta, caller)) = 1
                               /\ S \notin Range(cm.extends \o cm.implements)
                               /\ S \notin FileLevelCallees(meta, MetaNames(all_meta)))
                              => <<caller, S>> \notin G.edges

\* C8: the symbol index holds, under each simple class name, one candidate
\* per file that defines a class of that name, in discovery order.
C8_IndexKeepsEveryCandidate ==
    pc = "built" =>
        \A n \in MetaNames(all_meta) :
            LET defs == DefiningMetas(all_meta, n)
            IN  /\ n \in DOMAIN simple_map
                /\ Len(simple_map[n]) = Len(defs)
                /\ \A k \in DOMAIN defs :
                      /\ simple_map[n][k].file = defs[k].path
                      /\ simple_map[n][k].package = PackageOrEmpty(defs[k].package)

-----------------------------------------------------------------------------
(* Claims about a whole run *)

\* C10: when neither the requested target nor its last dot-separated
\* component is a node of the graph, collect_connected_classes fails with
\* the KeyError and the run ends there: nothing is ordered, no snippet is
\* extracted and no artifact is written.  A run gets past the closure only
\* with a target that is a node.
C10_MissingTargetEndsRun ==
    /\ pc = "target_not_found" =>
          /\ target_class \notin G.nodes
          /\ LastComponent(target_class) \notin G.nodes
          /\ "KeyError" \in diag
          /\ connected = {} /\ order = <<>> /\ snippets = <<>> /\ outputs = {}
          /\ ~ENABLED Next
    /\ pc \in {"collected", "ordered", "extracted", "crashed", "written"} =>
          target_class \in G.nodes
    /\ outputs # {} => target_class \in G.nodes

\* a run over a project with classes, ended by a dotted target whose last
\* component is no class either
C10_Witness ==
    /\ pc = "target_not_found"
    /\ target_class = "q.Nope"
    /\ "Foo" \in G.nodes
    /\ outputs = {}

\* C11: only a missing project root and a target that is no node of the
\* graph end a run without output: every run that has ended, and did not end
\* for one of these two reasons (or for want of any Java file, where there
\* is no graph), has written both artifacts, under either producer, with
\* parse failures and with cyclic closures.
C11_OnlyTwoHaltsWithoutOutput ==
    (/\ ~ENABLED Next
     /\ pc \notin {"input_not_found", "no_files", "target_not_found"})
    => /\ target_class \in G.nodes
       /\ outputs = {"flow.java", "flow.json"}

\* C12: after extract_code_snippets, every class of the order that the
\* registry knows with zero methods has exactly one snippet, whose code is
\* the full text of the class; when the class has no syntax node (fallback
\* producer) its lines come from the keyword and name heuristic.
C12_MethodlessClassKeptVerbatim ==
    pc \in {"extracted", "crashed", "written"} =>
        \A k \in DOMAIN order :
            LET n == order[k]
            IN  (/\ n \in DOMAIN class_to_file
                 /\ DOMAIN class_to_file[n].meta.methods = {})
                => /\ Cardinality({i \in DOMAIN snippets :
                                      snippets[i].class = n}) = 1
                   /\ \A i \in DOMAIN snippets :
                         snippets[i].class = n =>
                            /\ snippets[i].code = class_to_file[n].meta.full_snippet
                            /\ class_to_file[n].meta.node = "None" =>
                                  snippets[i].lines = "keyword and name heuristic"

C14_DuplicatesBothContribute ==
    pc = "built" =>
        \A N \in MetaNames(all_meta) :
            LET defs == DefiningMetas(all_meta, N)
            IN  Len(defs) >= 2 =>
                  /\ class_to_file[N].file = defs[Len(defs)].path
                  /\ class_to_file[N].meta = defs[Len(defs)].classes[N]
                  /\ \A k \in DOMAIN defs :
                        LET cm == defs[k].classes[N]
                        IN  /\ \A sup \in Range(cm.extends \o cm.implements) :
                                  sup \in G.nodes => <<N, sup>> \in G.edges
                            /\ \A e \in CallEdgesOfFile(defs[k], simple_map,
                                                        DOMAIN class_to_file) :
                                  e[1] = N => e \in G.edges

\* the simple names, after variable typing, of the call tokens in the
\* method bodies of one class
AttributedNames(cm) ==
    UNION {{SimpleName(tok, cm.methods[m].vars, cm.class_vars) :
               tok \in Range(DottedTokens(cm.methods[m].snippet))
                       \ {"this", "super"}} :
           m \in DOMAIN cm.methods}

\* C15: every edge of the built graph is accounted for by its source class:
\* a supertype or interface of it, a call token in one of its method bodies,
\* or, only for a definition no method was attributed to, a file-level call
\* token of its file.  So in a file that defines A and B where only A's
\* method bodies mention the class C, the graph has A -> C and not B -> C.
C15_CallEdgesAreAttributed ==
    pc = "built" =>
        /\ \A e \in G.edges :
              \E i \in DOMAIN all_meta :
                 /\ e[1] \in DOMAIN all_meta[i].classes
                 /\ LET cm == all_meta[i].classes[e[1]]
                    IN  \/ e[2] \in Range(cm.extends \o cm.implements)
                        \/ e[2] \in AttributedNames(cm)
                        \/ /\ DOMAIN cm.methods = {}
                           /\ e[2] \in FileLevelCallees(all_meta[i], G.nodes)
        /\ \A i \in DOMAIN files : \A ja, jb \in DOMAIN files[i].classes :
              LET A == files[i].classes[ja]
                  B == files[i].classes[jb]
              IN  \A C \in G.nodes :
                     (/\ A.name # B.name
                      /\ C \in SourceReceivers(A)
                      /\ C \notin SourceReceivers(B) \cup SourceSupers(B)
                      /\ Cardinality(SourceDefs(files, A.name)) = 1
                      /\ Cardinality(SourceDefs(files, B.name)) = 1)
                     => /\ <<A.name, C>> \in G.edges
                        /\ <<B.name, C>> \notin G.edges

-----------------------------------------------------------------------------
(* Claims about the fallback order and the resolution chain *)

\* u and v lie in one strongly connected component of g
SameComponent(g, u, v) == u = v \/ (HasPath(g, u, v) /\ HasPath(g, v, u))

\* C16: the order the DFS fallback returns (the induced subgraph has a
\* cycle, be it one self-loop) respects every edge between two strongly
\* connected components: u comes before v for every such edge u -> v; when
\* the only cycles are self-loops the order is a topological order of the
\* edges that are not self-loops.
C16_FallbackRespectsAcyclicEdges ==
    (pc = "ordered" /\ "cycle" \in diag) =>
        LET sub == Subgraph(G, connected)
        IN  /\ HasCycle(sub)
            /\ \A e \in sub.edges :
                  ~SameComponent(sub, e[1], e[2]) => Before(order, e[1], e[2])
            /\ ~HasCycle(WithoutSelfEdges(sub)) =>
                  \A e \in WithoutSelfEdges(sub).edges :
                     Before(order, e[1], e[2])

\* the chain a -> b -> c with a self-loop on a, ordered by the fallback
C16_Witness ==
    /\ pc = "ordered" /\ "cycle" \in diag
    /\ \E a, b, c \in connected :
          /\ Cardinality({a, b, c}) = 3
          /\ G.edges = {<<a, a>>, <<a, b>>, <<b, c>>}
          /\ order = <<a, b, c>>

\* the metadata list with every file's imports and package taken away
WithoutImportsAndPackage(metas) ==
    [i \in DOMAIN metas |->
        [metas[i] EXCEPT !.imports = <<>>, !.package = "None"]]

====
